---- MODULE Spec2Model ----
(***************************************************************************)
(* A model of TerminalServer.py: the ConnectionDispatcher (access keys,    *)
(* handshake, terminal and management handlers, state-change broadcast)    *)
(* and the Terminal sessions with their output and wait threads.           *)
(*                                                                         *)
(* Scheduling.  All handlers are coroutines of one asyncio event loop: a   *)
(* handler runs from one await to the next without another handler in      *)
(* between.  The output thread (pushTtyOutput) and the wait thread          *)
(* (waitSubshell) of every Terminal are OS threads and interleave with the *)
(* event loop and with each other; the content server (generateAccessKey)  *)
(* is a thread of its own.                                                 *)
(***************************************************************************)
EXTENDS Integers, Sequences, FiniteSets, TLC

\* ----------------------------------------------------------------- bounds
MaxConns == 2
MaxTerms == 2
MaxIDs == 2
MaxKeys == 2
MaxTicks == 2
MaxChunks == 1
MaxRequests == 1

\* ------------------------------------------------------ program constants
KeyTTL == 3600
MaxUShort == 65535
NewID == 0
Absent == -1
None == 0

Conns == 1..MaxConns
Terms == 1..MaxTerms
IDs == 1..MaxIDs
Keys == 1..MaxKeys

allowedOrigins == {"http://localhost", "https://localhost",
                   "http://127.0.0.1", "https://127.0.0.1"}
Origins == {"http://localhost", "http://evil.example"}
Paths == {"/term", "/manage", "/other"}

VARIABLES
    clock,                  \* time.time(), in units of KeyTTL seconds
    issued,                 \* number of access keys secrets.token_hex has produced
    accessKeys,             \* ConnectionDispatcher.accessKeys: key -> expiration time
    validated,              \* history: per key, what validateAccessKey returned for it, from
                            \* the first True on
    conns,                  \* the websocket connections accepted so far, and their handlers
    outbox,                 \* per connection, the messages scheduled on the loop for it
    managementConnections,  \* ConnectionDispatcher.managementConnections
    terminals,              \* ConnectionDispatcher.terminals, in insertion order
    Terminal,               \* the Terminal objects constructed so far (creator: history,
                            \* the websocket __init__ was called with)
    child,                  \* per Terminal, its shell process
    outputThread,           \* per Terminal, the thread running pushTtyOutput
    waitThread,             \* per Terminal, the thread running waitSubshell
    winsize,                \* per Terminal, <<rows, cols>> of the last TIOCSWINSZ on its PTY
    creating                \* the connection whose handler is between lines 236 and 237

vars == <<clock, issued, accessKeys, validated, conns, outbox, managementConnections,
          terminals, Terminal, child, outputThread, waitThread, winsize, creating>>

vault == <<clock, issued, accessKeys, validated>>
sessions == <<terminals, Terminal, child, outputThread, waitThread, winsize>>

\* ---------------------------------------------------------------- helpers
currentTime == clock * KeyTTL

\* the dict d without key k
DictDel(d, k) == [x \in DOMAIN d \ {k} |-> d[x]]

\* the dict d with d[k] = v
DictSet(d, k, v) == [x \in DOMAIN d \cup {k} |-> IF x = k THEN v ELSE d[x]]

SeqSet(s, i, v) == [s EXCEPT ![i] = v]

\* ------------------------------------------------------------ access keys
\* generateAccessKey: a key no call has returned before, good for one hour
GenerateAccessKey ==
    /\ issued < MaxKeys
    /\ issued' = issued + 1
    /\ accessKeys' = DictSet(accessKeys, issued + 1, currentTime + KeyTTL)
    /\ UNCHANGED <<clock, validated, conns, outbox, managementConnections,
                   sessions, creating>>

\* the clock of time.time() moves on
Tick ==
    /\ clock < MaxTicks
    /\ clock' = clock + 1
    /\ UNCHANGED <<issued, accessKeys, validated, conns, outbox, managementConnections,
                   sessions, creating>>

\* lines 171-177: the keys left after the expired ones are deleted
RemoveExpired(keys, now) ==
    LET deleteKeys == {key \in DOMAIN keys : keys[key] < now}
    IN  [key \in DOMAIN keys \ deleteKeys |-> keys[key]]

validateAccessKeyKeepsKey(keys, now, checkKey) ==
    LET swept == RemoveExpired(keys, now)
    IN  IF checkKey \in DOMAIN swept
        THEN [result |-> TRUE, keys |-> swept]
        ELSE [result |-> FALSE, keys |-> swept]

\* validateAccessKey: its return value and the accessKeys it leaves
validateAccessKey(keys, now, checkKey) ==
    LET swept == RemoveExpired(keys, now)
    IN  IF checkKey \in DOMAIN swept
        THEN [result |-> TRUE, keys |-> DictDel(swept, checkKey)]
        ELSE [result |-> FALSE, keys |-> swept]

\* ------------------------------------------------------- messages, sending
\* what a /term client may send once attached: '', 'k...', 'r' with a payload
\* json.loads rejects or that lacks rows or cols, and any other opcode.  An 'r'
\* message that holds rows and cols is the input of ListenResize.
ClientMessages == {"", "k", "rBad", "x"}

BadJSON == [json |-> FALSE, accessKey |-> Absent, sessionID |-> Absent]

\* the first message of a connection: not JSON, or an object that may hold
\* the fields accessKey and sessionID
Configs == {BadJSON} \cup
           [json : {TRUE}, accessKey : Keys \cup {Absent},
            sessionID : IDs \cup {NewID, Absent}]

\* a connection the library has not closed yet
IsOpen(cs, c) == cs[c].pc \in {"config", "creating", "listen", "manage"}

\* websocket.send scheduled on the loop (run_coroutine_threadsafe); the send of a
\* closed connection fails inside its task and delivers nothing
send(ob, cs, c, data) ==
    IF IsOpen(cs, c) THEN [ob EXCEPT ![c] = Append(@, data)] ELSE ob

\* ------------------------------------------------------------ the registry
InTerminals(items, sid) == \E i \in DOMAIN items : items[i].sessionID = sid

Lookup(items, sid) ==
    items[CHOOSE i \in DOMAIN items : items[i].sessionID = sid].terminal

\* self.terminals[sessionID] = terminal
Register(items, sid, t) ==
    IF InTerminals(items, sid)
    THEN [i \in DOMAIN items |->
            IF items[i].sessionID = sid THEN [sessionID |-> sid, terminal |-> t]
            ELSE items[i]]
    ELSE Append(items, [sessionID |-> sid, terminal |-> t])

\* del self.terminals[sessionID], for a key that is present
Unregister(items, sid) == SelectSeq(items, LAMBDA e : e.sessionID # sid)

generateSessionIDUnchecked(items) == IDs

\* generateSessionID: the IDs the loop of lines 154-157 can return
generateSessionID(items) == {sid \in IDs : ~InTerminals(items, sid)}

RECURSIVE PollResultAll(_, _)
PollResultAll(items, T) ==
    IF items = <<>> THEN <<>>
    ELSE LET e == Head(items)
         IN  <<[sessionID |-> e.sessionID, connected |-> T[e.terminal].connected]>>
             \o PollResultAll(Tail(items), T)

\* lines 267-275 and 316-324: the list built from self.terminals.items()
RECURSIVE PollResult(_, _)
PollResult(items, T) ==
    IF items = <<>> THEN <<>>
    ELSE LET e == Head(items)
         IN  (IF ~T[e.terminal].open THEN <<>>
              ELSE <<[sessionID |-> e.sessionID, connected |-> T[e.terminal].connected]>>)
             \o PollResult(Tail(items), T)

PollResponse(items, T) == [type |-> "poll", result |-> PollResult(items, T)]

RECURSIVE SendAll(_, _, _, _)
SendAll(ob, cs, targets, data) ==
    IF targets = {} THEN ob
    ELSE LET c == CHOOSE x \in targets : TRUE
         IN  SendAll(send(ob, cs, c, data), cs, targets \ {c}, data)

\* a broadcast that reaches nobody
pushStateChangeSendsNothing(ob, cs, mgmt, items, T) == ob

\* pushStateChange: the poll response sent to every management connection
pushStateChange(ob, cs, mgmt, items, T) ==
    SendAll(ob, cs, mgmt, PollResponse(items, T))

\* ------------------------------------------------------------------- Init
Init ==
    /\ clock = 0
    /\ issued = 0
    /\ accessKeys = <<>>
    /\ validated = [k \in Keys |-> <<>>]
    /\ conns = <<>>
    /\ outbox = <<>>
    /\ managementConnections = {}
    /\ terminals = <<>>
    /\ Terminal = <<>>
    /\ child = <<>>
    /\ outputThread = <<>>
    /\ waitThread = <<>>
    /\ winsize = <<>>
    /\ creating = None

\* ------------------------------------------------------- handler, line 188
OriginAllowedAny(o) == TRUE

\* line 193
OriginAllowed(o) == o \in allowedOrigins

\* a client connects; handler runs up to its first await (lines 193-198)
Connect(o) ==
    /\ creating = None
    /\ Len(conns) < MaxConns
    /\ conns' = Append(conns, [pc |-> IF OriginAllowed(o) THEN "config" ELSE "closed",
                               origin |-> o, received |-> FALSE, validated |-> FALSE,
                               sessionID |-> Absent,
                               terminal |-> None, requests |-> 0])
    /\ outbox' = Append(outbox, <<>>)
    /\ UNCHANGED <<vault, managementConnections, sessions, creating>>

\* the client goes away before its first message: recv at line 198 raises
ConfigClosed(c) ==
    /\ creating = None
    /\ c \in DOMAIN conns /\ conns[c].pc = "config"
    /\ conns' = [conns EXCEPT ![c].pc = "failed"]
    /\ UNCHANGED <<vault, outbox, managementConnections, sessions, creating>>

\* the history after the calls of validateAccessKey in calls (at most one)
Record(history, calls) ==
    IF calls = <<>> THEN history
    ELSE LET call == calls[1]
         IN  IF call.result \/ history[call.key] # <<>>
             THEN [history EXCEPT ![call.key] = Append(@, call.result)]
             ELSE history

\* line 206 with "and" for "or": a config that holds an accessKey passes unchecked
AuthenticateAndForOr(c, config) ==
    [result |-> config.json /\ config.accessKey # Absent, keys |-> accessKeys, calls |-> <<>>]

\* lines 199-208: whether the handshake of c passes, the accessKeys it leaves and
\* the calls of validateAccessKey it makes
Authenticate(c, config) ==
    IF ~config.json \/ config.accessKey = Absent
    THEN [result |-> FALSE, keys |-> accessKeys, calls |-> <<>>]
    ELSE LET v == validateAccessKey(accessKeys, currentTime, config.accessKey)
         IN  [result |-> v.result, keys |-> v.keys,
              calls |-> <<[key |-> config.accessKey, result |-> v.result]>>]

\* Terminal.listen from line 75 to its first await or its return, for the handler
\* of c serving Terminal t, with the registry and the objects as lines 234-242 left them
listen(c, t, cr, items, T) ==
    LET cs  == SeqSet(conns, c, [cr EXCEPT !.pc = "listen", !.terminal = t])
        ob1 == pushStateChange(outbox, cs, managementConnections, items, T)
        ob2 == send(ob1, cs, T[t].websocket,
                    [type |-> "sessionID", sessionID |-> T[t].sessionID])
    IN  IF T[t].open
        THEN /\ conns' = cs
             /\ outbox' = ob2
        ELSE /\ conns' = SeqSet(cs, c, [cr EXCEPT !.pc = "closed"])
             /\ outbox' = pushStateChange(ob2, cs, managementConnections, items, T)

MayAttachAlways(sid) == InTerminals(terminals, sid)

\* line 240
MayAttach(sid) ==
    InTerminals(terminals, sid) /\ ~Terminal[Lookup(terminals, sid)].connected

setNewConnectionKeepsWebsocket(T, t, c) == [T EXCEPT ![t].connected = TRUE]

\* Terminal.setNewConnection
setNewConnection(T, t, c) == [T EXCEPT ![t].websocket = c, ![t].connected = TRUE]

\* Terminal.__init__ with startTty: the object, its child and its two threads
Construct(c, sid) ==
    LET t == Len(Terminal) + 1
    IN  /\ Terminal' = Append(Terminal, [sessionID |-> sid, websocket |-> c, open |-> TRUE,
                                         connected |-> TRUE, subshellPID |-> t, ttyFd |-> t,
                                         creator |-> c])
        /\ child' = Append(child, [state |-> "running", sigterm |-> FALSE])
        /\ outputThread' = Append(outputThread, [pc |-> "read", reads |-> 0, ttyOutput |-> None])
        /\ waitThread' = Append(waitThread, "waitpid")
        /\ winsize' = Append(winsize, <<>>)

\* terminalHandler, lines 228-249, for an authenticated connection
terminalHandler(c, cr, config) ==
    IF config.sessionID = Absent
    THEN /\ conns' = SeqSet(conns, c, [cr EXCEPT !.pc = "closed"])
         /\ UNCHANGED <<outbox, sessions, creating>>
    ELSE IF config.sessionID = NewID
    THEN /\ Len(Terminal) < MaxTerms
         /\ \E sid \in generateSessionID(terminals) :
               /\ Construct(c, sid)
               /\ conns' = SeqSet(conns, c, [cr EXCEPT !.pc = "creating", !.sessionID = sid,
                                                       !.terminal = Len(Terminal) + 1])
         /\ creating' = c
         /\ UNCHANGED <<outbox, terminals>>
    ELSE IF MayAttach(config.sessionID)
    THEN LET t == Lookup(terminals, config.sessionID)
             T == setNewConnection(Terminal, t, c)
         IN  /\ Terminal' = T
             /\ listen(c, t, [cr EXCEPT !.sessionID = config.sessionID], terminals, T)
             /\ UNCHANGED <<terminals, child, outputThread, waitThread, winsize, creating>>
    ELSE /\ conns' = SeqSet(conns, c, [cr EXCEPT !.pc = "closed",
                                                 !.sessionID = config.sessionID])
         /\ UNCHANGED <<outbox, sessions, creating>>

\* the first message arrives: lines 198-222, for a connection made to path
Handshake(c, path, config) ==
    /\ creating = None
    /\ c \in DOMAIN conns /\ conns[c].pc = "config"
    /\ LET auth == Authenticate(c, config)
           cr   == [conns[c] EXCEPT !.received = TRUE,
                                    !.validated = \E i \in DOMAIN auth.calls : auth.calls[i].result]
       IN  /\ accessKeys' = auth.keys
           /\ validated' = Record(validated, auth.calls)
           /\ UNCHANGED <<clock, issued>>
           /\ IF ~auth.result
              THEN /\ conns' = SeqSet(conns, c, [cr EXCEPT !.pc = "closed"])
                   /\ UNCHANGED <<outbox, managementConnections, sessions, creating>>
              ELSE IF path = "/term"
              THEN /\ terminalHandler(c, cr, config)
                   /\ UNCHANGED managementConnections
              ELSE IF path = "/manage"
              THEN /\ managementConnections' = managementConnections \cup {c}
                   /\ conns' = SeqSet(conns, c, [cr EXCEPT !.pc = "manage"])
                   /\ UNCHANGED <<outbox, sessions, creating>>
              ELSE /\ conns' = SeqSet(conns, c, [cr EXCEPT !.pc = "closed"])
                   /\ UNCHANGED <<outbox, managementConnections, sessions, creating>>

\* the first message arrives and the content server adds a key while line 173
\* iterates over accessKeys: the iteration raises RuntimeError, no key is deleted
HandshakeRaced(c, config) ==
    /\ creating = None
    /\ c \in DOMAIN conns /\ conns[c].pc = "config"
    /\ config.json /\ config.accessKey # Absent
    /\ issued < MaxKeys
    /\ issued' = issued + 1
    /\ accessKeys' = DictSet(accessKeys, issued + 1, currentTime + KeyTTL)
    /\ conns' = [conns EXCEPT ![c].pc = "failed", ![c].received = TRUE]
    /\ UNCHANGED <<clock, validated, outbox, managementConnections, sessions, creating>>

\* line 237 and the listen that follows, after the constructor has returned
RegisterNew(c) ==
    /\ creating = c
    /\ LET t == conns[c].terminal
           items == Register(terminals, Terminal[t].sessionID, t)
       IN  /\ terminals' = items
           /\ listen(c, t, conns[c], items, Terminal)
    /\ creating' = None
    /\ UNCHANGED <<vault, managementConnections, Terminal, child, outputThread, waitThread,
                   winsize>>

\* --------------------------------------------------- Terminal.listen, line 80
\* whether onClientInput raises: json.loads or struct.pack on a bad resize payload,
\* os.write on a PTY whose shell is gone (writeFails: the kernel's answer)
onClientInputRaises(message, t, writeFails) ==
    \/ message = "rBad"
    \/ message = "k" /\ writeFails /\ child[t].state # "running"

\* a message of the attached client arrives: lines 82-83, then line 81 again
ListenRecv(c, message, writeFails) ==
    /\ creating = None
    /\ c \in DOMAIN conns /\ conns[c].pc = "listen"
    /\ LET t  == conns[c].terminal
           cr == conns[c]
       IN  IF onClientInputRaises(message, t, writeFails)
           THEN /\ conns' = SeqSet(conns, c, [cr EXCEPT !.pc = "failed", !.terminal = None])
                /\ UNCHANGED outbox
           ELSE IF Terminal[t].open
           THEN /\ conns' = SeqSet(conns, c, cr)
                /\ UNCHANGED outbox
           ELSE /\ conns' = SeqSet(conns, c, [cr EXCEPT !.pc = "closed", !.terminal = None])
                /\ outbox' = pushStateChange(outbox, conns, managementConnections,
                                             terminals, Terminal)
    /\ UNCHANGED <<vault, managementConnections, sessions, creating>>

\* the rows and cols a resize message may carry
Dims == {-1, 0, 24}

\* struct.pack("HHHH", ...) at line 69 takes x: an unsigned short
PackFits(x) == 0 <= x /\ x <= MaxUShort

\* resizeTerminal: the window size of the PTY after the ioctl of line 70
resizeTerminal(ws, t, row, col) == [ws EXCEPT ![t] = <<row, col>>]

\* a resize message 'r{"rows":rows,"cols":cols}' of the attached client arrives:
\* lines 82-83 with lines 131-133 and 66-70, then line 81 again
ListenResize(c, rows, cols) ==
    /\ creating = None
    /\ c \in DOMAIN conns /\ conns[c].pc = "listen"
    /\ LET t  == conns[c].terminal
           cr == conns[c]
       IN  IF ~(PackFits(rows) /\ PackFits(cols))
           THEN \* struct.error leaves listen, terminalHandler and handler
                /\ conns' = SeqSet(conns, c, [cr EXCEPT !.pc = "failed", !.terminal = None])
                /\ UNCHANGED <<outbox, winsize>>
           ELSE /\ winsize' = resizeTerminal(winsize, t, rows, cols)
                /\ IF Terminal[t].open
                   THEN UNCHANGED <<conns, outbox>>
                   ELSE /\ conns' = SeqSet(conns, c, [cr EXCEPT !.pc = "closed",
                                                                !.terminal = None])
                        /\ outbox' = pushStateChange(outbox, conns, managementConnections,
                                                     terminals, Terminal)
    /\ UNCHANGED <<vault, managementConnections, terminals, Terminal, child, outputThread,
                   waitThread, creating>>

ListenClosedStaysConnected(T, t) == T

\* lines 85-86
ListenClosedSets(T, t) == [T EXCEPT ![t].connected = FALSE]

\* the attached client goes away: recv raises ConnectionClosed, lines 85-89
ListenClosed(c) ==
    /\ creating = None
    /\ c \in DOMAIN conns /\ conns[c].pc = "listen"
    /\ LET t == conns[c].terminal
           T == ListenClosedSets(Terminal, t)
       IN  /\ Terminal' = T
           /\ conns' = [conns EXCEPT ![c].pc = "closed", ![c].terminal = None]
           /\ outbox' = pushStateChange(outbox, conns, managementConnections, terminals, T)
    /\ UNCHANGED <<vault, managementConnections, terminals, child, outputThread,
                   waitThread, winsize, creating>>

\* ------------------------------------------------ managementHandler, line 251
Requests == [type : {"poll", "kill", "other"}, sessionID : IDs \cup {Absent}]

\* line 285
KillFinds(sid) == InTerminals(terminals, sid) /\ Terminal[Lookup(terminals, sid)].open

\* a request of a management client arrives: lines 257-306.  os.kill of a PID that
\* waitpid has already released either raises ProcessLookupError or, when the kernel
\* has given the PID to another process (pidReused), signals that process
ManageRecv(c, request, pidReused) ==
    /\ creating = None
    /\ c \in DOMAIN conns /\ conns[c].pc = "manage"
    /\ conns[c].requests < MaxRequests
    /\ LET cr == [conns[c] EXCEPT !.requests = @ + 1]
           cs == SeqSet(conns, c, cr)
       IN  IF request.type = "poll"
           THEN /\ conns' = cs
                /\ outbox' = send(outbox, cs, c, PollResponse(terminals, Terminal))
                /\ UNCHANGED child
           ELSE IF request.type = "kill" /\ request.sessionID # Absent
           THEN IF KillFinds(request.sessionID)
                THEN LET t == Lookup(terminals, request.sessionID)
                     IN  IF child[t].state = "reaped" /\ ~pidReused
                         THEN \* os.kill raises ProcessLookupError
                              /\ conns' = SeqSet(conns, c, [cr EXCEPT !.pc = "failed"])
                              /\ UNCHANGED <<outbox, child>>
                         ELSE /\ child' = [child EXCEPT ![t].sigterm = TRUE]
                              /\ conns' = cs
                              /\ outbox' = send(outbox, cs, c,
                                      [type |-> "kill", result |-> "success",
                                       sessionID |-> request.sessionID])
                ELSE /\ conns' = cs
                     /\ outbox' = send(outbox, cs, c,
                                      [type |-> "kill", result |-> "error",
                                       sessionID |-> request.sessionID,
                                       message |-> "sessionID not found"])
                     /\ UNCHANGED child
           ELSE /\ conns' = cs
                /\ UNCHANGED <<outbox, child>>
    /\ UNCHANGED <<vault, managementConnections, terminals, Terminal, outputThread,
                   waitThread, winsize, creating>>

\* the management client goes away: lines 308-309, then line 218
ManageClosed(c) ==
    /\ creating = None
    /\ c \in DOMAIN conns /\ conns[c].pc = "manage"
    /\ conns' = [conns EXCEPT ![c].pc = "closed"]
    /\ managementConnections' = managementConnections \ {c}
    /\ UNCHANGED <<vault, outbox, sessions, creating>>

\* ------------------------------------------------------------ the shell
\* the shell exits, of its own accord or on a signal
ChildExit(t) ==
    /\ t \in DOMAIN child /\ child[t].state = "running"
    /\ child' = [child EXCEPT ![t].state = "exited"]
    /\ UNCHANGED <<vault, conns, outbox, managementConnections, terminals, Terminal,
                   outputThread, waitThread, winsize, creating>>

\* ------------------------------------------- pushTtyOutput, the output thread
\* The thread waits in os.read (pc "read"), holds a decoded chunk it is about to
\* send (pc "send"), or has left the loop (pc "done").  The loop condition of line
\* 113 is evaluated with the step that leads to it: it changes nothing but the
\* thread's own position, and a thread that passes it waits in os.read again.

\* line 113, reached from line 116 or 118
PumpLoop(t) == IF Terminal[t].open THEN "read" ELSE "done"

\* line 115 returns a chunk; line 116 decodes it, which may raise (line 117)
PumpRead(t, decodes) ==
    /\ t \in DOMAIN outputThread /\ outputThread[t].pc = "read"
    /\ outputThread[t].reads < MaxChunks
    /\ outputThread' = [outputThread EXCEPT ![t] =
          IF decodes
          THEN [pc |-> "send", reads |-> @.reads + 1,
                ttyOutput |-> [type |-> "ttyOutput", terminal |-> t, seq |-> @.reads + 1,
                               readFor |-> IF Terminal[t].connected
                                           THEN Terminal[t].websocket ELSE None]]
          ELSE [@ EXCEPT !.pc = PumpLoop(t)]]
    /\ UNCHANGED <<vault, conns, outbox, managementConnections, terminals, Terminal,
                   child, waitThread, winsize, creating>>

\* line 115 raises: the shell is gone and the PTY has nothing left
PumpReadError(t) ==
    /\ t \in DOMAIN outputThread /\ outputThread[t].pc = "read"
    /\ child[t].state # "running"
    /\ outputThread' = [outputThread EXCEPT ![t].pc = PumpLoop(t)]
    /\ UNCHANGED <<vault, conns, outbox, managementConnections, terminals, Terminal,
                   child, waitThread, winsize, creating>>

\* line 94, as called from line 116
SendTarget(t) == Terminal[t].websocket

\* line 116: self.send of the decoded chunk
PumpSend(t) ==
    /\ t \in DOMAIN outputThread /\ outputThread[t].pc = "send"
    /\ outbox' = send(outbox, conns, SendTarget(t), outputThread[t].ttyOutput)
    /\ outputThread' = [outputThread EXCEPT ![t].pc = PumpLoop(t), ![t].ttyOutput = None]
    /\ UNCHANGED <<vault, conns, managementConnections, terminals, Terminal,
                   child, waitThread, winsize, creating>>

\* --------------------------------------------- waitSubshell, the wait thread
\* line 100 returns
WaitPid(t) ==
    /\ t \in DOMAIN waitThread /\ waitThread[t] = "waitpid"
    /\ child[t].state = "exited"
    /\ child' = [child EXCEPT ![t].state = "reaped"]
    /\ waitThread' = [waitThread EXCEPT ![t] = "open"]
    /\ UNCHANGED <<vault, conns, outbox, managementConnections, terminals, Terminal,
                   outputThread, winsize, creating>>

\* line 103
WaitSetOpen(t) ==
    /\ t \in DOMAIN waitThread /\ waitThread[t] = "open"
    /\ Terminal' = [Terminal EXCEPT ![t].open = FALSE]
    /\ waitThread' = [waitThread EXCEPT ![t] = "del"]
    /\ UNCHANGED <<vault, conns, outbox, managementConnections, terminals, child,
                   outputThread, winsize, creating>>

\* line 106; a KeyError ends the thread
WaitDel(t) ==
    /\ t \in DOMAIN waitThread /\ waitThread[t] = "del"
    /\ IF InTerminals(terminals, Terminal[t].sessionID)
       THEN /\ terminals' = Unregister(terminals, Terminal[t].sessionID)
            /\ waitThread' = [waitThread EXCEPT ![t] = "push"]
       ELSE /\ waitThread' = [waitThread EXCEPT ![t] = "failed"]
            /\ UNCHANGED terminals
    /\ UNCHANGED <<vault, conns, outbox, managementConnections, Terminal, child,
                   outputThread, winsize, creating>>

\* line 107
WaitPush(t) ==
    /\ t \in DOMAIN waitThread /\ waitThread[t] = "push"
    /\ outbox' = pushStateChange(outbox, conns, managementConnections, terminals, Terminal)
    /\ waitThread' = [waitThread EXCEPT ![t] = "done"]
    /\ UNCHANGED <<vault, conns, managementConnections, terminals, Terminal, child,
                   outputThread, winsize, creating>>

\* ------------------------------------------------------------------- Next
Next ==
    \/ GenerateAccessKey
    \/ \E o \in Origins : Connect(o)
    \/ \E c \in Conns : ConfigClosed(c)
    \/ \E c \in Conns, path \in Paths, config \in Configs : Handshake(c, path, config)
    \/ \E c \in Conns, config \in Configs : HandshakeRaced(c, config)
    \/ \E c \in Conns : RegisterNew(c)
    \/ \E c \in Conns, message \in ClientMessages, writeFails \in BOOLEAN :
          ListenRecv(c, message, writeFails)
    \/ \E c \in Conns : ListenClosed(c)
    \/ \E c \in Conns, request \in Requests, pidReused \in BOOLEAN :
          ManageRecv(c, request, pidReused)
    \/ \E c \in Conns : ManageClosed(c)
    \/ \E t \in Terms : ChildExit(t)
    \/ \E t \in Terms, decodes \in BOOLEAN : PumpRead(t, decodes)
    \/ \E t \in Terms : PumpReadError(t)
    \/ \E t \in Terms : PumpSend(t)
    \/ \E t \in Terms : WaitPid(t)
    \/ \E t \in Terms : WaitSetOpen(t)
    \/ \E t \in Terms : WaitDel(t)
    \/ \E t \in Terms : WaitPush(t)

\* The clock stands still: an access key never expires, and a handshake can
\* still fail on a key that was never issued or is already used.
Spec == Init /\ [][Next]_vars

\* The same with time passing, so that keys expire.
SpecClock == Init /\ [][Next \/ Tick]_vars

\* The /term side alone, with the resize messages of the attached clients: the
\* handshake, listen and the shell with its wait thread.  Every behaviour of it is
\* a behaviour of the program in which the output threads have not been scheduled
\* and no management client has sent a request.
NextResize ==
    \/ GenerateAccessKey
    \/ \E o \in Origins : Connect(o)
    \/ \E c \in Conns, path \in Paths, config \in Configs : Handshake(c, path, config)
    \/ \E c \in Conns : RegisterNew(c)
    \/ \E c \in Conns, message \in ClientMessages, writeFails \in BOOLEAN :
          ListenRecv(c, message, writeFails)
    \/ \E c \in Conns, rows \in Dims, cols \in Dims : ListenResize(c, rows, cols)
    \/ \E c \in Conns : ListenClosed(c)
    \/ \E t \in Terms : ChildExit(t)
    \/ \E t \in Terms : WaitPid(t)
    \/ \E t \in Terms : WaitSetOpen(t)
    \/ \E t \in Terms : WaitDel(t)
    \/ \E t \in Terms : WaitPush(t)

SpecResize == Init /\ [][NextResize]_vars

\* ------------------------------------- iteration over terminals, overlapped
\* The loops of lines 268 and 317 step through self.terminals.items() with no lock.
\* When another thread inserts or deletes a key between two steps of the iterator
\* (or between its creation and its first step), the next step raises RuntimeError
\* ("dictionary changed size during iteration").  Each action below is one such
\* overlap: the change of the other thread, with the iterating side ending on the
\* exception.  Next has the same loops run without a change in between.

\* the wait thread of t is in the loop of line 317 (called from line 107) when the
\* event loop runs line 237 for the handler of c
WaitPushRacedByInsert(t, c) ==
    /\ t \in DOMAIN waitThread /\ waitThread[t] = "push"
    /\ creating = c
    /\ LET u == conns[c].terminal
           items == Register(terminals, Terminal[u].sessionID, u)
       IN  /\ Len(items) # Len(terminals)
           /\ terminals' = items
           /\ listen(c, u, conns[c], items, Terminal)
    /\ creating' = None
    /\ waitThread' = [waitThread EXCEPT ![t] = "raced"]
    /\ UNCHANGED <<vault, managementConnections, Terminal, child, outputThread, winsize>>

\* the wait thread of t is in the loop of line 317 when the wait thread of another
\* session u runs line 106
WaitPushRacedByDel(t, u) ==
    /\ t \in DOMAIN waitThread /\ waitThread[t] = "push"
    /\ u \in DOMAIN waitThread /\ waitThread[u] = "del" /\ u # t
    /\ InTerminals(terminals, Terminal[u].sessionID)
    /\ terminals' = Unregister(terminals, Terminal[u].sessionID)
    /\ waitThread' = [waitThread EXCEPT ![t] = "raced", ![u] = "push"]
    /\ UNCHANGED <<vault, conns, outbox, managementConnections, Terminal, child,
                   outputThread, winsize, creating>>

\* the management handler of c is in the loop of line 268, for a poll request, when
\* the wait thread of u runs line 106: RuntimeError leaves managementHandler and
\* handler, and line 218 is not reached
PollRacedByDel(c, u) ==
    /\ creating = None
    /\ c \in DOMAIN conns /\ conns[c].pc = "manage"
    /\ conns[c].requests < MaxRequests
    /\ u \in DOMAIN waitThread /\ waitThread[u] = "del"
    /\ InTerminals(terminals, Terminal[u].sessionID)
    /\ terminals' = Unregister(terminals, Terminal[u].sessionID)
    /\ waitThread' = [waitThread EXCEPT ![u] = "push"]
    /\ conns' = [conns EXCEPT ![c].pc = "failed", ![c].requests = @ + 1]
    /\ UNCHANGED <<vault, outbox, managementConnections, Terminal, child, outputThread,
                   winsize, creating>>

\* Spec with the overlaps.
SpecRace ==
    Init /\ [][\/ Next
               \/ \E t \in Terms, c \in Conns : WaitPushRacedByInsert(t, c)
               \/ \E t \in Terms, u \in Terms : WaitPushRacedByDel(t, u)
               \/ \E c \in Conns, u \in Terms : PollRacedByDel(c, u)]_vars

\* a shell that has been sent SIGTERM exits
ChildExitOnSigterm(t) == t \in DOMAIN child /\ child[t].sigterm /\ ChildExit(t)

\* Spec with the scheduling the threads can count on: a shell that was sent SIGTERM
\* exits, the wait thread of a Terminal is scheduled until waitSubshell returns or
\* raises, its output thread is scheduled as long as it has a step to take, and a
\* handler that has constructed a Terminal runs on to line 237.  Nothing is
\* assumed of the clients: a peer may stay silent and stay connected for ever.
SpecFair ==
    /\ Spec
    /\ \A t \in Terms :
          /\ WF_vars(ChildExitOnSigterm(t))
          /\ WF_vars(WaitPid(t))
          /\ WF_vars(WaitSetOpen(t))
          /\ WF_vars(WaitDel(t))
          /\ WF_vars(WaitPush(t))
          /\ WF_vars(PumpReadError(t))
          /\ WF_vars(PumpSend(t))
    /\ \A c \in Conns : WF_vars(RegisterNew(c))

\* =================================================================== claims

\* a connection that passed both checks of handler: its Origin is in the allow-list
\* and validateAccessKey returned True for the accessKey of its first message
Authenticated(c) == conns[c].origin \in allowedOrigins /\ conns[c].validated

\* C1: for every access key, validateAccessKey returns True at most once: every
\* call for the key after the first True returns False.
C1_KeyAcceptedAtMostOnce ==
    \A k \in Keys : \A i \in DOMAIN validated[k] : i > 1 => ~validated[k][i]

\* C1 witness: a key was accepted and then presented again, and refused
C1_Witness == \E k \in Keys : validated[k] = <<TRUE, FALSE>>

\* C2: only a connection that passed the Origin check and whose first message
\* carried an accepted accessKey creates a session, is attached to one, is served
\* by a handler or is a management subscriber; a connection that fails a check is
\* closed and no message was ever sent to it.
C2_OnlyAuthenticatedServed ==
    /\ \A t \in DOMAIN Terminal :
          Authenticated(Terminal[t].creator) /\ Authenticated(Terminal[t].websocket)
    /\ \A c \in managementConnections : Authenticated(c)
    /\ \A c \in DOMAIN conns :
          /\ conns[c].pc \in {"creating", "listen", "manage"} => Authenticated(c)
          /\ (conns[c].origin \notin allowedOrigins \/ (conns[c].received /\ ~conns[c].validated))
                => ~IsOpen(conns, c) /\ outbox[c] = <<>>

\* C2 witness: one connection was refused for its access key and got nothing,
\* another passed the checks, is attached to a session and was sent its greeting
C2_Witness ==
    \E c, d \in DOMAIN conns :
        /\ conns[c].origin \in allowedOrigins /\ conns[c].received /\ ~conns[c].validated
        /\ conns[c].pc = "closed" /\ outbox[c] = <<>>
        /\ conns[d].pc = "listen" /\ Terminal[conns[d].terminal].websocket = d
        /\ outbox[d] # <<>>

\* C3: a connection whose Origin is not in the allow-list is closed in the step
\* that accepts it, before any frame is received from it, and that step leaves
\* accessKeys, terminals and managementConnections as they were; it stays closed,
\* no frame is ever received from it and nothing is ever sent to it.
C3_BadOriginClosedAtOnce ==
    /\ [](\A c \in DOMAIN conns :
            conns[c].origin \notin allowedOrigins
                => conns[c].pc = "closed" /\ ~conns[c].received /\ outbox[c] = <<>>)
    /\ [][\A c \in DOMAIN conns' \ DOMAIN conns :
            conns'[c].origin \notin allowedOrigins
                => UNCHANGED <<accessKeys, terminals, managementConnections, Terminal>>]_vars

\* C3 witness: a connection with a foreign Origin was closed while an unused
\* access key is stored, and the key is still there
C3_Witness ==
    \E c \in DOMAIN conns :
        /\ conns[c].origin \notin allowedOrigins /\ conns[c].pc = "closed"
        /\ accessKeys # <<>>
        /\ \E d \in DOMAIN conns : d < c /\ conns[d].pc = "listen"

\* C4: no two Terminal objects whose shell is open have the same sessionID.
C4_LiveSessionIDsDistinct ==
    \A t, u \in DOMAIN Terminal :
        t # u /\ Terminal[t].open /\ Terminal[u].open
            => Terminal[t].sessionID # Terminal[u].sessionID

\* C4 witness: a session was created while another one was open, and both are
\* registered and open
C4_Witness ==
    \E t, u \in DOMAIN Terminal :
        /\ t # u /\ Terminal[t].open /\ Terminal[u].open
        /\ InTerminals(terminals, Terminal[t].sessionID)
        /\ InTerminals(terminals, Terminal[u].sessionID)

\* C5: every session in terminals has its shell open, except between line 103 and
\* line 106 of its wait thread, which is then about to remove it.
C5_RegisteredIsOpen ==
    \A i \in DOMAIN terminals :
        LET t == terminals[i].terminal
        IN  Terminal[t].open \/ waitThread[t] = "del"

\* C6: the first message scheduled for the connection that created a session is
\* the session's ID: no PTY output is scheduled for it before the greeting.
C6_GreetingFirst ==
    \A t \in DOMAIN Terminal :
        LET c == Terminal[t].creator
        IN  outbox[c] # <<>>
                => outbox[c][1] = [type |-> "sessionID", sessionID |-> Terminal[t].sessionID]

Greeting(sid) == [type |-> "sessionID", sessionID |-> sid]

C8_SecondAttachRejected ==
    /\ [](\A t \in DOMAIN Terminal :
            Cardinality({c \in DOMAIN conns :
                            /\ conns[c].pc \in {"creating", "listen"}
                            /\ conns[c].terminal = t}) <= 1)
    /\ [][\A c \in DOMAIN conns : \A sid \in IDs :
            (/\ conns[c].pc = "config" /\ conns'[c].pc \notin {"config", "creating"}
             /\ conns'[c].sessionID = sid
             /\ InTerminals(terminals, sid)
             /\ Terminal[Lookup(terminals, sid)].connected)
                => /\ conns'[c].pc = "closed"
                   /\ Terminal' = Terminal
                   /\ outbox' = outbox
         ]_vars

\* C8 witness: a session is being served for the connection that created it, and
\* an authenticated connection that named the session's ID is closed with nothing
\* sent to it
C8_Witness ==
    \E t \in DOMAIN Terminal : \E c, d \in DOMAIN conns :
        /\ Terminal[t].creator = c /\ Terminal[t].websocket = c /\ Terminal[t].connected
        /\ conns[c].pc = "listen" /\ conns[c].terminal = t
        /\ InTerminals(terminals, Terminal[t].sessionID)
        /\ d > c /\ conns[d].pc = "closed" /\ conns[d].validated
        /\ conns[d].sessionID = Terminal[t].sessionID
        /\ outbox[d] = <<>>

\* C9: every PTY chunk scheduled for a connection was read while that connection
\* was the attached peer of the session, and the chunks of a session reach a
\* connection in the order they were read.
C9_ChunksOnlyForAttachedPeer ==
    \A c \in DOMAIN outbox : \A i \in DOMAIN outbox[c] :
        outbox[c][i].type = "ttyOutput"
            => /\ outbox[c][i].readFor = c
               /\ \A j \in DOMAIN outbox[c] :
                    (/\ j < i /\ outbox[c][j].type = "ttyOutput"
                     /\ outbox[c][j].terminal = outbox[c][i].terminal)
                        => outbox[c][j].seq < outbox[c][i].seq

\* the registered Terminal objects whose shell is open
Live(items, T) ==
    {t \in DOMAIN T : T[t].open /\ \E j \in DOMAIN items : items[j].terminal = t}

\* result lists exactly the sessions of Live, each once, with its connected flag
SnapshotExact(result, items, T) ==
    /\ \A t \in Live(items, T) :
          \E i \in DOMAIN result :
              /\ result[i] = [sessionID |-> T[t].sessionID, connected |-> T[t].connected]
              /\ \A j \in DOMAIN result : result[j].sessionID = T[t].sessionID => j = i
    /\ \A i \in DOMAIN result :
          \E t \in Live(items, T) :
              result[i] = [sessionID |-> T[t].sessionID, connected |-> T[t].connected]

C12_PeerClosedAfterReap ==
    \A c \in Conns :
        (/\ c \in DOMAIN conns /\ conns[c].pc = "listen"
         /\ child[conns[c].terminal].state = "reaped")
            ~> (c \in DOMAIN conns /\ conns[c].pc # "listen")

\* the message a step appends to the queue of connection c, as a set (empty when
\* it appends none)
Appended(c) ==
    IF c \in DOMAIN outbox /\ Len(outbox'[c]) > Len(outbox[c])
    THEN {outbox'[c][Len(outbox'[c])]}
    ELSE {}

\* C13: a kill request is answered with success only when its ID is in terminals with
\* open True, and then SIGTERM goes to that session's child, which has not been
\* reaped; it is answered with the error "sessionID not found" only when the ID is
\* not in terminals with open True, and then no signal is sent and terminals is
\* unchanged; and a request never ends the management handler without an answer.
C13_KillAnswered ==
    [][\A c \in DOMAIN conns :
          /\ \A m \in Appended(c) :
                m.type = "kill"
                    => IF m.result = "success"
                       THEN /\ KillFinds(m.sessionID)
                            /\ child[Lookup(terminals, m.sessionID)].state # "reaped"
                            /\ child'[Lookup(terminals, m.sessionID)].sigterm
                       ELSE /\ ~KillFinds(m.sessionID)
                            /\ m.message = "sessionID not found"
                            /\ child' = child
                            /\ terminals' = terminals
          /\ conns[c].pc = "manage" => conns'[c].pc \in {"manage", "closed"}
      ]_vars

\* C14: a step that handles a resize message whose rows or cols is not positive
\* leaves the window size of the PTY as it was, and, the shell being open, leaves
\* the connection served by listen and the session connected.
C14_BadResizeRejected ==
    [][\A c \in DOMAIN conns : \A rows \in Dims, cols \in Dims :
          ((rows <= 0 \/ cols <= 0) /\ ListenResize(c, rows, cols))
              => /\ winsize' = winsize
                 /\ Terminal[conns[c].terminal].open
                        => /\ conns'[c].pc = "listen"
                           /\ Terminal'[conns[c].terminal].connected
      ]_vars

\* C15: a step that makes a connection the websocket of an existing Terminal
\* (setNewConnection) is taken only when the Terminal's open is True and its
\* connected is False.
C15_AttachOnlyToOpenDetached ==
    [][\A t \in DOMAIN Terminal :
          Terminal'[t].websocket # Terminal[t].websocket
              => Terminal[t].open /\ ~Terminal[t].connected
      ]_vars

\* C16: a step in which listen stops serving a connection sends every management
\* connection that is open a poll message, and if the session's open is still True
\* its connected is False afterwards and the message lists it as not connected.
C16_BroadcastWhenListenStops ==
    [][\A c \in DOMAIN conns :
          (conns[c].pc \in {"creating", "listen"} /\ conns'[c].pc \notin {"creating", "listen"})
              => LET t == conns[c].terminal
                     shown == [sessionID |-> Terminal[t].sessionID, connected |-> FALSE]
                 IN  /\ Terminal'[t].open => ~Terminal'[t].connected
                     /\ \A d \in managementConnections :
                           IsOpen(conns, d)
                               => \E m \in Appended(d) :
                                     /\ m.type = "poll"
                                     /\ Terminal'[t].open
                                           => \E i \in DOMAIN m.result : m.result[i] = shown
      ]_vars

\* C17: no wait thread's broadcast is cut short: the loop over terminals that
\* pushStateChange runs for a reap is never overlapped by another thread's change
\* of terminals, so no wait thread ends on the exception of the iterator.
C17_ReapBroadcastCompletes ==
    \A t \in DOMAIN waitThread : waitThread[t] # "raced"

\* the PTY master descriptor of Terminal t has been closed: the Terminal holds no
\* descriptor any more
FdClosed(t) == Terminal[t].ttyFd = None

\* C18: once the child of a session has been reaped, its output thread eventually
\* ends and its PTY master descriptor is eventually closed.
C18_PumpEndsAndFdClosed ==
    \A t \in Terms :
        (t \in DOMAIN child /\ child[t].state = "reaped")
            ~> (t \in DOMAIN child /\ outputThread[t].pc = "done" /\ FdClosed(t))

\* C19: a Terminal whose open and connected are both True has a handler that is
\* serving its websocket: the connection is in listen, or on its way there from the
\* constructor, for that Terminal.
C19_ConnectedIsServed ==
    \A t \in DOMAIN Terminal :
        (Terminal[t].open /\ Terminal[t].connected)
            => \E c \in DOMAIN conns :
                  /\ conns[c].pc \in {"creating", "listen"}
                  /\ conns[c].terminal = t
                  /\ Terminal[t].websocket = c

\* C20: os.kill at line 287 is only ever called with the PID of a child that has
\* not been reaped: no step sends SIGTERM to a PID that waitpid has released, and
\* no management handler ends on the error os.kill raises for such a PID.
C20_KillOnlyUnreaped ==
    [][/\ \A t \in DOMAIN child :
            (child'[t].sigterm /\ ~child[t].sigterm) => child[t].state # "reaped"
       /\ \A c \in DOMAIN conns :
            conns[c].pc = "manage" => conns'[c].pc # "failed"
      ]_vars

====
